---- MODULE Spec2Model ----
(***************************************************************************)
(* Model of scqubits/core/param_sweep.py: the Parameters container, the    *)
(* ParameterSweepBase / ParameterSweep container with its run() phases,    *)
(* and the CENTRAL_DISPATCH staleness protocol.                            *)
(*                                                                         *)
(* Python values are represented as follows.                               *)
(*   list / tuple / ndarray : sequence (index tuples hold 0-based ints)    *)
(*   dict                   : [keys |-> insertion order, val |-> function] *)
(*   None                   : the string "None" or a record of type "None" *)
(*   call outcome           : record with field ok, and val or err         *)
(***************************************************************************)
EXTENDS Integers, Sequences, FiniteSets, TLC

(***************************************************************************)
(* Bounds of the model.                                                    *)
(***************************************************************************)
PCount == 2          \* number of values of axis "p"
QCount == 3          \* number of values of axis "q"
NumSubsys == 2       \* number of subsystems of the HilbertSpace
MaxTupleLen == 3     \* longest index tuple / selector tried
MaxOrderLen == 3     \* longest ordering passed to reorder
MaxFixed == 2        \* longest list of names passed to create_reduced
NumCpus == 2         \* number of workers of a sweep with more than one

NumEsys == 2         \* the "esys" slot: 0 eigenvalues, 1 eigenvectors
DefaultEvalsCount == 6

NameUniverse == {"p", "q", "r"}   \* "r" is never an axis of the sweep

\* position of a name in Python's string order, used by sorted()
NameRank(n) == CASE n = "p" -> 1 [] n = "q" -> 2 [] n = "r" -> 3

SeqsUpTo(S, n) == UNION {[1..k -> S] : k \in 0..n}

ToSet(s) == {s[i] : i \in 1..Len(s)}

(***************************************************************************)
(* Python builtins.                                                        *)
(***************************************************************************)
\* list(range(n))
range(n) == [i \in 1..n |-> i - 1]

RECURSIVE insort(_, _)
insort(x, s) ==
    IF s = <<>> THEN <<x>>
    ELSE IF x <= Head(s) THEN <<x>> \o s
    ELSE <<Head(s)>> \o insort(x, Tail(s))

\* sorted(s) for a list of ints
RECURSIVE sorted(_)
sorted(s) == IF s = <<>> THEN <<>> ELSE insort(Head(s), sorted(Tail(s)))

\* sorted(s) for a list of str, as the list of ranks (NameRank is injective
\* and order preserving, so two sorted name lists are equal iff these are)
sorted_names(s) == sorted([i \in 1..Len(s) |-> NameRank(s[i])])

\* np.prod of a list of ints
RECURSIVE prod(_)
prod(s) == IF s = <<>> THEN 1 ELSE Head(s) * prod(Tail(s))

\* a product in which the first list varies fastest
RECURSIVE product_first_fastest(_)
product_first_fastest(lists) ==
    IF lists = <<>> THEN << <<>> >>
    ELSE LET rest == product_first_fastest(Tail(lists))
             hd == Head(lists)
             n == Len(hd)
         IN [k \in 1..(n * Len(rest)) |->
                <<hd[((k - 1) % n) + 1]>> \o rest[((k - 1) \div n) + 1]]

\* itertools.product(*lists): row-major, the last list varies fastest
RECURSIVE product(_)
product(lists) ==
    IF lists = <<>> THEN << <<>> >>
    ELSE LET rest == product(Tail(lists))
             hd == Head(lists)
             n == Len(rest)
         IN [k \in 1..(Len(hd) * n) |->
                <<hd[((k - 1) \div n) + 1]>> \o rest[((k - 1) % n) + 1]]

\* dict: d[k] = v (a new key is appended to the insertion order)
DictSet(d, k, v) ==
    IF k \in DOMAIN d.val
    THEN [keys |-> d.keys, val |-> [d.val EXCEPT ![k] = v]]
    ELSE [keys |-> Append(d.keys, k),
          val |-> [x \in DOMAIN d.val \cup {k} |-> IF x = k THEN v ELSE d.val[x]]]

EmptyDict == [keys |-> <<>>, val |-> <<>>]

Ok(v) == [ok |-> TRUE, val |-> v]
Raise(e) == [ok |-> FALSE, err |-> e]

\* an optional argument: None, or a given value
None == [none |-> TRUE]
Some(v) == [none |-> FALSE, v |-> v]

(***************************************************************************)
(* class Parameters                                                        *)
(***************************************************************************)
\* Parameters.__init__(paramvals_by_name, paramnames_list=None)
Parameters(paramvals_by_name) ==
    [_paramvals_by_name |-> paramvals_by_name,
     _paramnames_list |-> paramvals_by_name.keys]

\* Parameters.__len__
len(P) == Len(P._paramnames_list)

\* Parameters.__getitem__ with a str key
getitem_str(P, key) ==
    IF key \in DOMAIN P._paramvals_by_name.val
    THEN Ok(P._paramvals_by_name.val[key])
    ELSE Raise("KeyError")

\* Parameters.__getitem__ with a tuple key: the comprehension runs over
\* range(len(self)) and subscripts key[index], then the axis values.
getitem_tuple(P, key) ==
    IF Len(key) < len(P) THEN Raise("IndexError")
    ELSE IF \E i \in 1..len(P) :
               key[i] >= Len(P._paramvals_by_name.val[P._paramnames_list[i]])
    THEN Raise("IndexError")
    ELSE Ok([i \in 1..len(P) |->
                P._paramvals_by_name.val[P._paramnames_list[i]][key[i] + 1]])

\* Parameters.names
names(P) == P._paramnames_list

\* Parameters.paramvals_list
paramvals_list(P) ==
    [i \in 1..len(P) |-> P._paramvals_by_name.val[P._paramnames_list[i]]]

\* Parameters.counts
counts(P) == [i \in 1..len(P) |-> Len(paramvals_list(P)[i])]

\* Parameters.ranges
ranges(P) == [i \in 1..len(P) |-> range(counts(P)[i])]

\* Parameters.index_by_name (0-based); the name is in the list
index_by_name(P, name) ==
    (CHOOSE i \in 1..len(P) :
        /\ P._paramnames_list[i] = name
        /\ \A j \in 1..(i - 1) : P._paramnames_list[j] # name) - 1

\* ordered_dict that follows the insertion order of the mapping
ordered_dict_of_mapping(P) ==
    [keys |-> P._paramvals_by_name.keys,
     val |-> [n \in ToSet(P._paramvals_by_name.keys) |->
                P._paramvals_by_name.val[n]]]

\* Parameters.ordered_dict
ordered_dict(P) ==
    [keys |-> names(P),
     val |-> [n \in ToSet(names(P)) |-> P._paramvals_by_name.val[n]]]

\* reorder that compares the sets of names instead of the sorted lists
reorder_setcheck(P, ordering) ==
    IF /\ ordering.kind = "str"
       /\ ToSet(ordering.list) = ToSet(P._paramnames_list)
    THEN Ok([P EXCEPT !._paramnames_list = ordering.list])
    ELSE IF ordering.kind = "int" /\ sorted(ordering.list) = range(len(P))
    THEN Ok([P EXCEPT !._paramnames_list =
                [i \in 1..Len(ordering.list) |->
                    P._paramnames_list[ordering.list[i] + 1]]])
    ELSE Raise("ValueError")

\* Parameters.reorder; the ordering is a list of str or a list of int
reorder(P, ordering) ==
    IF /\ ordering.kind = "str"
       /\ sorted_names(ordering.list) = sorted_names(P._paramnames_list)
    THEN Ok([P EXCEPT !._paramnames_list = ordering.list])
    ELSE IF ordering.kind = "int" /\ sorted(ordering.list) = range(len(P))
    THEN Ok([P EXCEPT !._paramnames_list =
                [i \in 1..Len(ordering.list) |->
                    P._paramnames_list[ordering.list[i] + 1]]])
    ELSE Raise("ValueError")

\* the loop of create_reduced: reduced[name] = fixed_values[index]
RECURSIVE assign_fixed(_, _, _, _)
assign_fixed(d, fixed_names, fixed_values, index) ==
    IF index > Len(fixed_names) THEN Ok(d)
    ELSE IF index > Len(fixed_values) THEN Raise("IndexError")
    ELSE assign_fixed(DictSet(d, fixed_names[index], fixed_values[index]),
                      fixed_names, fixed_values, index + 1)

\* create_reduced that copies the mapping in its own insertion order
create_reduced_of_mapping(P, fixed_parametername_list, fixed_values) ==
    IF /\ fixed_values.none
       /\ \E i \in 1..Len(fixed_parametername_list) :
             ~ getitem_str(P, fixed_parametername_list[i]).ok
    THEN Raise("KeyError")
    ELSE
      LET fv == IF fixed_values.none
                THEN [i \in 1..Len(fixed_parametername_list) |->
                        <<getitem_str(P, fixed_parametername_list[i]).val[1]>>]
                ELSE fixed_values.v
          r == assign_fixed(P._paramvals_by_name,
                            fixed_parametername_list, fv, 1)
      IN IF r.ok THEN Ok(Parameters(r.val)) ELSE r

\* Parameters.create_reduced; fixed_values is None or a list of arrays
create_reduced(P, fixed_parametername_list, fixed_values) ==
    IF /\ fixed_values.none
       /\ \E i \in 1..Len(fixed_parametername_list) :
             ~ getitem_str(P, fixed_parametername_list[i]).ok
    THEN Raise("KeyError")
    ELSE
      LET fv == IF fixed_values.none
                THEN [i \in 1..Len(fixed_parametername_list) |->
                        <<getitem_str(P, fixed_parametername_list[i]).val[1]>>]
                ELSE fixed_values.v
          reduced_paramvals_by_name ==
              [keys |-> P._paramnames_list,
               val |-> [n \in ToSet(P._paramnames_list) |->
                          P._paramvals_by_name.val[n]]]
          r == assign_fixed(reduced_paramvals_by_name,
                            fixed_parametername_list, fv, 1)
      IN IF r.ok THEN Ok(Parameters(r.val)) ELSE r

(***************************************************************************)
(* numpy arrays of dtype object: [shape, flat], flat in row-major order.   *)
(* The trailing dimension of length 2 (evals, evecs) is kept in the shape; *)
(* one element of flat stands for the pair stored along it.                *)
(***************************************************************************)
Front(s) == SubSeq(s, 1, Len(s) - 1)

\* row-major offset of index tuple t in an array with leading dimensions dims
RECURSIVE offset(_, _)
offset(dims, t) ==
    IF dims = <<>> THEN 0
    ELSE offset(Front(dims), Front(t)) * dims[Len(dims)] + t[Len(t)]

\* arr[t] for a full index tuple t over the leading dimensions
at(arr, t) == arr.flat[offset(Front(arr.shape), t) + 1]

\* position of index tuple t when the first index varies fastest
RECURSIVE order_F(_, _)
order_F(cnts, t) ==
    IF cnts = <<>> THEN 0
    ELSE Head(t) + Head(cnts) * order_F(Tail(cnts), Tail(t))

\* a reshape that fills the array with the first index varying fastest
reshape_order_F(results, cnts) ==
    LET idx == product([i \in 1..Len(cnts) |-> range(cnts[i])])
    IN [shape |-> cnts \o <<NumEsys>>,
        flat |-> [k \in 1..Len(results) |->
                    results[order_F(cnts, idx[k]) + 1]]]

\* np.asarray(list(results)).reshape((*counts, 2))
reshape(results, cnts) == [shape |-> cnts \o <<NumEsys>>, flat |-> results]

\* np.repeat along the first axis whatever axis is asked for
repeat_first_axis(arr, repeats, axis) ==
    LET dims == Front(arr.shape)
        newdims == [dims EXCEPT ![1] = dims[1] * repeats]
        newidx == product([i \in 1..Len(newdims) |-> range(newdims[i])])
    IN [shape |-> newdims \o <<NumEsys>>,
        flat |-> [k \in 1..Len(newidx) |->
                    at(arr, [newidx[k] EXCEPT ![1] = newidx[k][1] \div repeats])]]

\* np.repeat(arr, repeats, axis=axis) for a leading axis (0-based)
repeat(arr, repeats, axis) ==
    LET dims == Front(arr.shape)
        newdims == [dims EXCEPT ![axis + 1] = dims[axis + 1] * repeats]
        newidx == product([i \in 1..Len(newdims) |-> range(newdims[i])])
    IN [shape |-> newdims \o <<NumEsys>>,
        flat |-> [k \in 1..Len(newidx) |->
                    at(arr, [newidx[k] EXCEPT
                               ![axis + 1] = newidx[k][axis + 1] \div repeats])]]

(***************************************************************************)
(* State of one ParameterSweep, of its HilbertSpace and of the process.    *)
(***************************************************************************)
VARIABLES
    parameters,              \* self.parameters
    hilbertspace,            \* configuration of self._hilbertspace: the
                             \* values last applied to it
    _sweep_generators,       \* None, or the names of the dict in key order
    _evals_count,
    _subsys_update_info,     \* None, or a dict name -> set of subsystems
    _data,                   \* the result store
    _out_of_sync,
    _current_param_indices,
    DISPATCH_ENABLED,        \* settings.DISPATCH_ENABLED
    pc,                      \* position of control: "idle" outside run()
    subsystem,               \* loop variable of bare_spectrum_sweep
    fixed_paramnames,        \* locals of _subsys_bare_spectrum_sweep
    reduced_parameters,
    todo,                    \* points the map has not yet consumed
    results,                 \* results the map has produced so far
    bare_spectrum,           \* local of bare_spectrum_sweep
    gen_index,               \* position in self._sweep_generators.items()
    run_status,              \* how the last call of run() ended
    run_log,                 \* events delivered to clients since run() began
    writes,                  \* keys of _data assigned since run() began
    ret,                     \* outcome of the last call made by the user
    autorun,                 \* the autorun argument of __init__
    _num_cpus

vars == <<parameters, hilbertspace, _sweep_generators, _evals_count,
          _subsys_update_info, _data, _out_of_sync, _current_param_indices,
          DISPATCH_ENABLED, pc, subsystem, fixed_paramnames,
          reduced_parameters, todo, results, bare_spectrum, gen_index,
          run_status, run_log, writes, ret, autorun, _num_cpus>>

sweepfields == <<parameters, _sweep_generators, _evals_count,
                 _subsys_update_info, autorun, _num_cpus>>
runlocals == <<subsystem, fixed_paramnames, reduced_parameters, todo,
               results, bare_spectrum, gen_index>>

Subsystems == 0..(NumSubsys - 1)

PVals == [i \in 1..PCount |-> i]
QVals == [i \in 1..QCount |-> 10 * i]
AxisVals(n) == IF n = "p" THEN PVals ELSE QVals

\* a paramvals_by_name dict with the given insertion order of keys
Mapping(keys) == [keys |-> keys, val |-> [n \in ToSet(keys) |-> AxisVals(n)]]

KeyOrders == {<<"p">>, <<"p", "q">>, <<"q", "p">>}

UpdateInfos ==
    {None,
     Some([n \in {"p"} |-> {0}]),
     Some([n \in {"p", "q"} |-> IF n = "p" THEN {0} ELSE {NumSubsys - 1}])}

GeneratorNames == {None, Some(<<"obs">>), Some(<<"lookup", "obs">>)}

\* the configuration an outside caller gives the HilbertSpace
ExternalConfig == <<0>>
InitialConfig == <<>>

NoCall == [op |-> "none"]
NoParameters == [none |-> TRUE]

NamedSlotsNdarray(arr, slots) ==
    [type |-> "NamedSlotsNdarray", arr |-> arr, slots |-> slots]
NoneValue == [type |-> "None"]

(***************************************************************************)
(* ParameterSweep.__init__                                                 *)
(***************************************************************************)
\* a constructor that runs whatever the argument is
runs_at_construction_always(autorun_arg) == TRUE

\* "if autorun: self.run()"
runs_at_construction(autorun_arg) == autorun_arg

\* ParameterSweep.__init__; with autorun the constructor is inside run()
ParameterSweep_init(keys, info, gens, autorun_arg, num_cpus) ==
    /\ parameters = Parameters(Mapping(keys))
    /\ hilbertspace = InitialConfig
    /\ _sweep_generators = gens
    /\ _evals_count = DefaultEvalsCount
    /\ _subsys_update_info = info
    /\ _data = EmptyDict
    /\ _out_of_sync = FALSE
    /\ _current_param_indices = [kind |-> "tuple", key |-> <<>>]
    /\ DISPATCH_ENABLED = TRUE
    /\ autorun = autorun_arg
    /\ _num_cpus = num_cpus
    /\ pc = IF runs_at_construction(autorun_arg) THEN "cause_dispatch"
            ELSE "idle"
    /\ subsystem = 0
    /\ fixed_paramnames = <<>>
    /\ reduced_parameters = NoParameters
    /\ todo = <<>>
    /\ results = <<>>
    /\ bare_spectrum = <<>>
    /\ gen_index = 0
    /\ run_status = IF runs_at_construction(autorun_arg) THEN "running"
                    ELSE "none"
    /\ run_log = <<>>
    /\ writes = <<>>
    /\ ret = NoCall

\* ParameterSweep.__init__ with autorun=False
SweepInit(keys, info, gens) ==
    ParameterSweep_init(keys, info, gens, FALSE, 1)

Init ==
    \E keys \in KeyOrders, info \in UpdateInfos, gens \in GeneratorNames,
       autorun_arg \in BOOLEAN :
        ParameterSweep_init(keys, info, gens, autorun_arg, 1)

(***************************************************************************)
(* CENTRAL_DISPATCH and the receive hook                                   *)
(***************************************************************************)
\* a receive that does not look at the sender of the event
receive_any_sender(data, out_of_sync, event, sender) ==
    IF "lookup" \in DOMAIN data.val
    THEN IF event \in {"HILBERTSPACE_UPDATE", "PARAMETERSWEEP_UPDATE"}
         THEN TRUE ELSE out_of_sync
    ELSE out_of_sync

\* ParameterSweepBase.receive: the value of _out_of_sync afterwards
receive(data, out_of_sync, event, sender) ==
    IF "lookup" \in DOMAIN data.val
    THEN IF event = "HILBERTSPACE_UPDATE" /\ sender = "hilbertspace" THEN TRUE
         ELSE IF event = "PARAMETERSWEEP_UPDATE" /\ sender = "sweep" THEN TRUE
         ELSE out_of_sync
    ELSE out_of_sync

\* CentralDispatch.dispatch: with the flag off nothing is delivered; with
\* it on every registered client receives the event. The sweep is a client.
dispatch(data, event, sender) ==
    /\ _out_of_sync' = IF DISPATCH_ENABLED
                       THEN receive(data, _out_of_sync, event, sender)
                       ELSE _out_of_sync
    /\ run_log' = IF DISPATCH_ENABLED /\ pc # "idle"
                  THEN Append(run_log, [event |-> event, sender |-> sender,
                                        at |-> pc])
                  ELSE run_log

\* self._update_hilbertspace(*paramvals): reconfigures the HilbertSpace,
\* which announces HILBERTSPACE_UPDATE
update_hilbertspace(paramval_tuple) ==
    /\ hilbertspace' = paramval_tuple
    /\ dispatch(_data, "HILBERTSPACE_UPDATE", "hilbertspace")

\* the locals of run() and of the functions it calls are discarded
discard_locals ==
    /\ subsystem' = 0
    /\ fixed_paramnames' = <<>>
    /\ reduced_parameters' = NoParameters
    /\ todo' = <<>>
    /\ results' = <<>>
    /\ bare_spectrum' = <<>>
    /\ gen_index' = 0

\* an exception leaves run(): nothing after the raising statement executes
raise_from_run ==
    /\ pc' = "idle"
    /\ run_status' = "raised"
    /\ discard_locals
    /\ UNCHANGED <<_data, writes, DISPATCH_ENABLED>>

\* where a point-level step can fail
Failures == {"none", "update", "eigensys"}

(***************************************************************************)
(* ParameterSweep.run                                                      *)
(***************************************************************************)
\* the call of run() by the user
run_call ==
    /\ pc = "idle"
    /\ pc' = "cause_dispatch"
    /\ run_status' = "running"
    /\ run_log' = <<>>
    /\ writes' = <<>>
    /\ ret' = NoCall
    /\ UNCHANGED <<sweepfields, hilbertspace, _data, _out_of_sync,
                   _current_param_indices, DISPATCH_ENABLED, runlocals>>

\* ParameterSweep.cause_dispatch
cause_dispatch(fail) ==
    /\ pc = "cause_dispatch"
    /\ LET initial_parameters ==
               [i \in 1..len(parameters) |-> paramvals_list(parameters)[i][1]]
       IN IF fail = "none"
          THEN /\ update_hilbertspace(initial_parameters)
               /\ pc' = "disable"
               /\ UNCHANGED <<_data, writes, DISPATCH_ENABLED, runlocals,
                              run_status>>
          ELSE /\ raise_from_run
               /\ UNCHANGED <<hilbertspace, _out_of_sync, run_log>>
    /\ UNCHANGED <<sweepfields, _current_param_indices, ret>>

\* run() without the statement that disables the channel
disable_dispatch_omitted ==
    /\ pc = "disable"
    /\ bare_spectrum' = <<>>
    /\ subsystem' = 0
    /\ pc' = "bare_setup"
    /\ UNCHANGED <<sweepfields, hilbertspace, _data, _out_of_sync,
                   _current_param_indices, fixed_paramnames,
                   reduced_parameters, todo, results, gen_index, run_status,
                   run_log, writes, ret, DISPATCH_ENABLED>>

\* settings.DISPATCH_ENABLED = False, and entry into bare_spectrum_sweep
disable_dispatch ==
    /\ pc = "disable"
    /\ DISPATCH_ENABLED' = FALSE
    /\ bare_spectrum' = <<>>
    /\ subsystem' = 0
    /\ pc' = "bare_setup"
    /\ UNCHANGED <<sweepfields, hilbertspace, _data, _out_of_sync,
                   _current_param_indices, fixed_paramnames,
                   reduced_parameters, todo, results, gen_index, run_status,
                   run_log, writes, ret>>

\* paramnames_no_subsys_update that takes every key of the map as updating
paramnames_not_in_map(subsys) ==
    IF _subsys_update_info.none THEN {}
    ELSE ToSet(names(parameters)) \ DOMAIN _subsys_update_info.v

\* ParameterSweep.paramnames_no_subsys_update, before list(): a set
paramnames_no_subsys_update(subsys) ==
    IF _subsys_update_info.none THEN {}
    ELSE LET info == _subsys_update_info.v
             updating_parameters == {n \in DOMAIN info : subsys \in info[n]}
         IN ToSet(names(parameters)) \ updating_parameters

Orderings(S) == {o \in [1..Cardinality(S) -> S] : ToSet(o) = S}

\* multi_cpu = self._num_cpus > 1
multi_cpu == _num_cpus > 1

\* _subsys_bare_spectrum_sweep up to the construction of the map; list(set)
\* has no defined order
bare_setup ==
    /\ pc = "bare_setup"
    /\ \E fixed \in Orderings(paramnames_no_subsys_update(subsystem)) :
          /\ fixed_paramnames' = fixed
          /\ reduced_parameters' = create_reduced(parameters, fixed, None).val
    /\ todo' = product(paramvals_list(reduced_parameters'))
    /\ results' = <<>>
    /\ pc' = IF multi_cpu THEN "bare_pmap" ELSE "bare_map"
    /\ UNCHANGED <<sweepfields, hilbertspace, _data, _out_of_sync,
                   _current_param_indices, DISPATCH_ENABLED, subsystem,
                   bare_spectrum, gen_index, run_status, run_log, writes, ret>>

\* subsystem.eigensys(evals_count=subsystem.truncated_dim): the bare
\* eigensystem of the subsystem in the configuration the handle has
subsystem_eigensys(subsys, config) == [subsys |-> subsys, config |-> config]

\* ParameterSweep._update_subsys_compute_esys for the next point of the map
update_subsys_compute_esys(fail) ==
    /\ pc = "bare_map"
    /\ todo # <<>>
    /\ LET paramval_tuple == Head(todo)
       IN CASE fail = "none" ->
                 /\ update_hilbertspace(paramval_tuple)
                 /\ results' = Append(results,
                                  subsystem_eigensys(subsystem, paramval_tuple))
                 /\ todo' = Tail(todo)
                 /\ UNCHANGED <<pc, run_status, _data, writes,
                                DISPATCH_ENABLED, subsystem, fixed_paramnames,
                                reduced_parameters, bare_spectrum, gen_index>>
            [] fail = "update" ->
                 /\ raise_from_run
                 /\ UNCHANGED <<hilbertspace, _out_of_sync, run_log>>
            [] fail = "eigensys" ->
                 /\ update_hilbertspace(paramval_tuple)
                 /\ raise_from_run
    /\ UNCHANGED <<sweepfields, _current_param_indices, ret>>

\* the loop "for name in fixed_paramnames: ... np.repeat"
RECURSIVE expand(_, _, _)
expand(bare_eigendata, fixed, i) ==
    IF i > Len(fixed) THEN bare_eigendata
    ELSE LET index == index_by_name(parameters, fixed[i])
             param_count == counts(parameters)[index + 1]
         IN expand(repeat(bare_eigendata, param_count, index), fixed, i + 1)

\* slot labels of the bare array
bare_slots ==
    LET od == ordered_dict(parameters)
    IN [keys |-> <<"subsys">> \o od.keys \o <<"esys">>,
        val |-> [k \in {"subsys", "esys"} \cup DOMAIN od.val |->
                    IF k = "subsys" THEN range(NumSubsys)
                    ELSE IF k = "esys" THEN range(NumEsys)
                    ELSE od.val[k]]]

\* slot labels of the dressed array
dressed_slots ==
    LET od == ordered_dict(parameters)
    IN [keys |-> od.keys \o <<"esys">>,
        val |-> [k \in {"esys"} \cup DOMAIN od.val |->
                    IF k = "esys" THEN range(NumEsys) ELSE od.val[k]]]

\* a loop that stops after the first subsystem
subsystems_left_none(subsys) == FALSE

\* "for subsystem in self._hilbertspace": is there a subsystem after subsys
subsystems_left(subsys) == subsys < NumSubsys - 1

\* the end of _subsys_bare_spectrum_sweep (reshape, repeat); after the last
\* subsystem, the end of bare_spectrum_sweep, the assignment of
\* _data["bare_esys"] and the construction of the map of the dressed sweep
bare_reassemble ==
    /\ pc = "bare_map"
    /\ todo = <<>>
    /\ LET bare_eigendata ==
               expand(reshape(results, counts(reduced_parameters)),
                      fixed_paramnames, 1)
           spectrum == Append(bare_spectrum, bare_eigendata)
       IN /\ bare_spectrum' = spectrum
          /\ IF subsystems_left(subsystem)
             THEN /\ subsystem' = subsystem + 1
                  /\ pc' = "bare_setup"
                  /\ UNCHANGED <<_data, writes, todo>>
             ELSE /\ _data' = DictSet(_data, "bare_esys",
                                  NamedSlotsNdarray(spectrum, bare_slots))
                  /\ writes' = Append(writes, "bare_esys")
                  /\ todo' = product(ranges(parameters))
                  /\ pc' = IF multi_cpu THEN "dressed_pmap"
                           ELSE "dressed_map"
                  /\ UNCHANGED subsystem
    /\ results' = <<>>
    /\ UNCHANGED <<sweepfields, hilbertspace, _out_of_sync,
                   _current_param_indices, DISPATCH_ENABLED, fixed_paramnames,
                   reduced_parameters, gen_index, run_status, run_log, ret>>

\* hilbertspace.eigensys(evals_count=..., bare_esys=...)
hilbertspace_eigensys(evals_count, bare_esys, config) ==
    [evals_count |-> evals_count, bare_esys |-> bare_esys, config |-> config]

\* a hint that holds the bare entries of the first grid point
bare_esys_hint_first_point(data, paramindex_tuple) ==
    [s \in Subsystems |->
        at(data.val["bare_esys"].arr[s + 1],
           [i \in 1..Len(paramindex_tuple) |-> 0])]

\* the bare_esys dict built in _update_and_compute_dressed_esys
bare_esys_hint(data, paramindex_tuple) ==
    [s \in Subsystems |-> at(data.val["bare_esys"].arr[s + 1], paramindex_tuple)]

\* ParameterSweep._update_and_compute_dressed_esys for the next index tuple
update_and_compute_dressed_esys(fail) ==
    /\ pc = "dressed_map"
    /\ todo # <<>>
    /\ LET paramindex_tuple == Head(todo)
           paramval_tuple == getitem_tuple(parameters, paramindex_tuple).val
       IN CASE fail = "none" ->
                 /\ update_hilbertspace(paramval_tuple)
                 /\ results' = Append(results,
                        hilbertspace_eigensys(_evals_count,
                            bare_esys_hint(_data, paramindex_tuple),
                            paramval_tuple))
                 /\ todo' = Tail(todo)
                 /\ UNCHANGED <<pc, run_status, _data, writes,
                                DISPATCH_ENABLED, subsystem, fixed_paramnames,
                                reduced_parameters, bare_spectrum, gen_index>>
            [] fail = "update" ->
                 /\ raise_from_run
                 /\ UNCHANGED <<hilbertspace, _out_of_sync, run_log>>
            [] fail = "eigensys" ->
                 /\ update_hilbertspace(paramval_tuple)
                 /\ raise_from_run
    /\ UNCHANGED <<sweepfields, _current_param_indices, ret>>

\* the end of dressed_spectrum_sweep and the assignment of _data["esys"]
dressed_reassemble ==
    /\ pc = "dressed_map"
    /\ todo = <<>>
    /\ _data' = DictSet(_data, "esys",
                    NamedSlotsNdarray(reshape(results, counts(parameters)),
                                      dressed_slots))
    /\ writes' = Append(writes, "esys")
    /\ results' = <<>>
    /\ pc' = "lookup"
    /\ UNCHANGED <<sweepfields, hilbertspace, _out_of_sync,
                   _current_param_indices, DISPATCH_ENABLED, subsystem,
                   fixed_paramnames, reduced_parameters, todo, bare_spectrum,
                   gen_index, run_status, run_log, ret>>

(***************************************************************************)
(* The maps with more than one worker. The workers are processes: each     *)
(* updates and solves its own copy of the handle, so the handle and the    *)
(* channel of the sweep are untouched and the steps of different workers   *)
(* commute; what the sweep sees is the order in which points complete.     *)
(***************************************************************************)
\* the points of the map that no worker has completed
pending == (1..Len(todo)) \ DOMAIN results

\* a worker completes a point of the bare map, or fails
pmap_bare_point(fail) ==
    /\ pc = "bare_pmap"
    /\ \E k \in pending :
          IF fail = "none"
          THEN /\ results' = (k :> subsystem_eigensys(subsystem, todo[k]))
                                @@ results
               /\ UNCHANGED <<pc, run_status, _data, writes, DISPATCH_ENABLED,
                              subsystem, fixed_paramnames, reduced_parameters,
                              todo, bare_spectrum, gen_index>>
          ELSE raise_from_run
    /\ UNCHANGED <<sweepfields, hilbertspace, _out_of_sync, run_log,
                   _current_param_indices, ret>>

\* a worker completes an index tuple of the dressed map, or fails
pmap_dressed_point(fail) ==
    /\ pc = "dressed_pmap"
    /\ \E k \in pending :
          IF fail = "none"
          THEN /\ results' =
                     (k :> hilbertspace_eigensys(_evals_count,
                               bare_esys_hint(_data, todo[k]),
                               getitem_tuple(parameters, todo[k]).val))
                        @@ results
               /\ UNCHANGED <<pc, run_status, _data, writes, DISPATCH_ENABLED,
                              subsystem, fixed_paramnames, reduced_parameters,
                              todo, bare_spectrum, gen_index>>
          ELSE raise_from_run
    /\ UNCHANGED <<sweepfields, hilbertspace, _out_of_sync, run_log,
                   _current_param_indices, ret>>

\* list(target_map(...)): the results of all points, in the order in which
\* the points were submitted
pmap_collect ==
    /\ pc \in {"bare_pmap", "dressed_pmap"}
    /\ pending = {}
    /\ results' = [k \in 1..Len(todo) |-> results[k]]
    /\ todo' = <<>>
    /\ pc' = IF pc = "bare_pmap" THEN "bare_map" ELSE "dressed_map"
    /\ UNCHANGED <<sweepfields, hilbertspace, _data, _out_of_sync,
                   _current_param_indices, DISPATCH_ENABLED, subsystem,
                   fixed_paramnames, reduced_parameters, bare_spectrum,
                   gen_index, run_status, run_log, writes, ret>>

\* SpectrumLookupMixin.generate_lookup: a named array with one dimension per
\* axis, holding per point the dressed indices of the product-state labels;
\* whether the labels form a further dimension is left open (label_dims)
generate_lookup(data, label_dims) ==
    LET esys == data.val["esys"].arr
    IN NamedSlotsNdarray(
           [shape |-> counts(parameters) \o [i \in 1..label_dims |-> NumSubsys],
            flat |-> [k \in 1..Len(esys.flat) |-> esys.flat[k].config]],
           ordered_dict(parameters))

\* self._data["dressed_indices"] = self.generate_lookup()
run_lookup(ok, label_dims) ==
    /\ pc = "lookup"
    /\ IF ok
       THEN /\ _data' = DictSet(_data, "dressed_indices",
                            generate_lookup(_data, label_dims))
            /\ writes' = Append(writes, "dressed_indices")
            /\ gen_index' = 1
            /\ pc' = IF _sweep_generators.none THEN "enable" ELSE "custom"
            /\ UNCHANGED <<DISPATCH_ENABLED, subsystem, fixed_paramnames,
                           reduced_parameters, todo, results, bare_spectrum,
                           run_status>>
       ELSE raise_from_run
    /\ UNCHANGED <<sweepfields, hilbertspace, _out_of_sync,
                   _current_param_indices, run_log, ret>>

\* ParameterSweep.custom_sweep: the body is "pass"
custom_sweep(sweep_generator) == NoneValue

\* one iteration of the loop over self._sweep_generators.items()
run_custom ==
    /\ pc = "custom"
    /\ LET sweep_name == _sweep_generators.v[gen_index]
       IN /\ _data' = DictSet(_data, sweep_name, custom_sweep(sweep_name))
          /\ writes' = Append(writes, sweep_name)
    /\ gen_index' = gen_index + 1
    /\ pc' = IF gen_index = Len(_sweep_generators.v) THEN "enable" ELSE "custom"
    /\ UNCHANGED <<sweepfields, hilbertspace, _out_of_sync,
                   _current_param_indices, DISPATCH_ENABLED, subsystem,
                   fixed_paramnames, reduced_parameters, todo, results,
                   bare_spectrum, run_status, run_log, ret>>

\* a return of run() that first sets the handle back to the first point
enable_dispatch_restoring ==
    /\ pc = "enable"
    /\ DISPATCH_ENABLED' = TRUE
    /\ hilbertspace' =
          [i \in 1..len(parameters) |-> paramvals_list(parameters)[i][1]]
    /\ pc' = "idle"
    /\ run_status' = "returned"
    /\ discard_locals
    /\ UNCHANGED <<sweepfields, _data, _out_of_sync,
                   _current_param_indices, run_log, writes, ret>>

\* settings.DISPATCH_ENABLED = True, and the return of run()
enable_dispatch ==
    /\ pc = "enable"
    /\ DISPATCH_ENABLED' = TRUE
    /\ pc' = "idle"
    /\ run_status' = "returned"
    /\ discard_locals
    /\ UNCHANGED <<sweepfields, hilbertspace, _data, _out_of_sync,
                   _current_param_indices, run_log, writes, ret>>

(***************************************************************************)
(* Calls and events between runs                                           *)
(***************************************************************************)
\* a slot of a selector tuple: an index, or slice(None)
FreeSlot == 0 - 1
SelectorTuples == SeqsUpTo({FreeSlot, 0}, MaxTupleLen - 1)
Selectors == {[kind |-> "tuple", key |-> t] : t \in SelectorTuples}
                 \cup {[kind |-> "slice", key |-> <<>>]}

\* the fixed_params argument: None, or a dict, given by the names it fixes
FixedParams == {None} \cup {Some(S) : S \in SUBSET {"p", "q"}}

\* the HilbertSpace is reconfigured by a caller outside the sweep
external_update ==
    /\ pc = "idle"
    /\ update_hilbertspace(ExternalConfig)
    /\ ret' = NoCall
    /\ UNCHANGED <<sweepfields, _data, _current_param_indices,
                   DISPATCH_ENABLED, pc, runlocals, run_status, writes>>

\* an event of another HilbertSpace or another sweep is dispatched
foreign_event(event) ==
    /\ pc = "idle"
    /\ dispatch(_data, event,
                IF event = "HILBERTSPACE_UPDATE" THEN "other_hilbertspace"
                ELSE "other_sweep")
    /\ ret' = NoCall
    /\ UNCHANGED <<sweepfields, hilbertspace, _data, _current_param_indices,
                   DISPATCH_ENABLED, pc, runlocals, run_status, writes>>

\* WatchedProperty.__set__: the attribute is set, then PARAMETERSWEEP_UPDATE
\* is broadcast with the sweep as the sender
reassign(field) ==
    /\ pc = "idle"
    /\ CASE field = "parameters" ->
              /\ parameters' = Parameters(parameters._paramvals_by_name)
              /\ UNCHANGED <<_evals_count, _data>>
         [] field = "_evals_count" ->
              /\ _evals_count' \in {DefaultEvalsCount, DefaultEvalsCount - 1}
              /\ UNCHANGED <<parameters, _data>>
         [] field = "_data" ->
              /\ _data' = EmptyDict
              /\ UNCHANGED <<parameters, _evals_count>>
    /\ dispatch(_data', "PARAMETERSWEEP_UPDATE", "sweep")
    /\ ret' = NoCall
    /\ UNCHANGED <<_sweep_generators, _subsys_update_info, autorun,
                   _num_cpus, hilbertspace,
                   _current_param_indices, DISPATCH_ENABLED, pc, runlocals,
                   run_status, writes>>

\* a selection that returns a view of its own, holding the selector
getitem_selector_view(key) ==
    [ref |-> "view", _current_param_indices |-> key]

\* what __getitem__ returns for a tuple or slice key: "return self"
getitem_selector(key) == [ref |-> "self"]

\* ParameterSweepBase.__getitem__ with a tuple or slice key
select(key) ==
    /\ pc = "idle"
    /\ _current_param_indices' = key
    /\ ret' = [op |-> "select", ok |-> TRUE, arg |-> key,
               out |-> getitem_selector(key),
               earlier |-> IF ret.op = "select" THEN Some(ret.out) ELSE None]
    /\ UNCHANGED <<sweepfields, hilbertspace, _data, _out_of_sync,
                   DISPATCH_ENABLED, pc, runlocals, run_status, run_log,
                   writes>>

\* ParameterSweepBase.__getitem__ with a str key
getitem(data, key) ==
    IF key \in DOMAIN data.val THEN Ok(data.val[key]) ELSE Raise("KeyError")

\* ParameterSweepBase.is_single_sweep
is_single_sweep(data, param_indices) ==
    LET dressed_indices == getitem(data, "dressed_indices")
    IN IF ~ dressed_indices.ok THEN dressed_indices
       ELSE IF Len(dressed_indices.val.arr.shape) # 2 THEN Ok(FALSE)
       ELSE Ok(TRUE)

\* ParameterSweepBase.bare_specdata_list; indexing the named array with
\* fixed_params and unpacking it is left to the named array (indexing_ok)
bare_specdata_list(data, current, fixed_params, indexing_ok) ==
    LET param_indices ==
            IF fixed_params.none \/ fixed_params.v = {}
            THEN current ELSE [kind |-> "dict", key |-> fixed_params.v]
        single == is_single_sweep(data, param_indices)
    IN IF ~ single.ok THEN single
       ELSE IF ~ single.val THEN Raise("ValueError")
       ELSE IF ~ getitem(data, "bare_esys").ok THEN Raise("KeyError")
       ELSE IF indexing_ok THEN Ok("None") ELSE Raise("IndexingError")

\* sweep[key] with a str key
call_getitem_str(key) ==
    /\ pc = "idle"
    /\ ret' = [op |-> "sweep_getitem", arg |-> key,
               out |-> getitem(_data, key),
               data |-> _data, out_of_sync |-> _out_of_sync,
               selection |-> _current_param_indices]
    /\ UNCHANGED <<sweepfields, hilbertspace, _data, _out_of_sync,
                   _current_param_indices, DISPATCH_ENABLED, pc, runlocals,
                   run_status, run_log, writes>>

call_is_single_sweep(param_indices) ==
    /\ pc = "idle"
    /\ ret' = [op |-> "is_single_sweep", arg |-> param_indices,
               out |-> is_single_sweep(_data, param_indices)]
    /\ UNCHANGED <<sweepfields, hilbertspace, _data, _out_of_sync,
                   _current_param_indices, DISPATCH_ENABLED, pc, runlocals,
                   run_status, run_log, writes>>

call_bare_specdata_list(fixed_params, indexing_ok) ==
    /\ pc = "idle"
    /\ ret' = [op |-> "bare_specdata_list", arg |-> fixed_params,
               out |-> bare_specdata_list(_data, _current_param_indices,
                                          fixed_params, indexing_ok),
               data |-> _data, out_of_sync |-> _out_of_sync]
    /\ UNCHANGED <<sweepfields, hilbertspace, _data, _out_of_sync,
                   _current_param_indices, DISPATCH_ENABLED, pc, runlocals,
                   run_status, run_log, writes>>

RunNext ==
    \/ run_call
    \/ \E fail \in {"none", "update"} : cause_dispatch(fail)
    \/ disable_dispatch
    \/ bare_setup
    \/ \E fail \in Failures : update_subsys_compute_esys(fail)
    \/ bare_reassemble
    \/ \E fail \in Failures : update_and_compute_dressed_esys(fail)
    \/ dressed_reassemble
    \/ \E ok \in BOOLEAN, label_dims \in {0, 1} : run_lookup(ok, label_dims)
    \/ run_custom
    \/ enable_dispatch

Next ==
    \/ RunNext
    \/ external_update
    \/ \E event \in {"HILBERTSPACE_UPDATE", "PARAMETERSWEEP_UPDATE"} :
          foreign_event(event)
    \/ \E field \in {"parameters", "_evals_count", "_data"} : reassign(field)

\* runs of the sweep, updates of the HilbertSpace and reassignments
Spec == Init /\ [][Next]_vars

(***************************************************************************)
(* The same sweep with the selection and the reads that depend on it; the  *)
(* subsystem-update map plays no part in them and is left out.             *)
(***************************************************************************)
InitSelect ==
    \E keys \in KeyOrders, gens \in {None, Some(<<"lookup", "obs">>)} :
        SweepInit(keys, None, gens)

NextSelect ==
    \/ RunNext
    \/ external_update
    \/ \E key \in Selectors : select(key)
    \/ \E param_indices \in Selectors : call_is_single_sweep(param_indices)
    \/ \E fixed_params \in FixedParams, indexing_ok \in BOOLEAN :
          call_bare_specdata_list(fixed_params, indexing_ok)

SpecSelect == InitSelect /\ [][NextSelect]_vars

(***************************************************************************)
(* A Parameters object on its own: the calls of its methods.               *)
(***************************************************************************)
MaxIndex == (IF PCount > QCount THEN PCount ELSE QCount) - 1
IndexTuples == SeqsUpTo(0..MaxIndex, MaxTupleLen)

NameOrderings ==
    {[kind |-> "str", list |-> o] : o \in SeqsUpTo(NameUniverse, MaxOrderLen)}
IndexOrderings ==
    {[kind |-> "int", list |-> o] :
        o \in SeqsUpTo(0..(MaxOrderLen - 1), MaxOrderLen)}

FixedNameLists == SeqsUpTo(NameUniverse, MaxFixed)
FixedValueLists ==
    {None, Some(<<>>), Some(<< <<5>> >>), Some(<< <<5>>, <<7>> >>)}

InitParams == \E keys \in KeyOrders : SweepInit(keys, None, None)

notsweep == <<autorun, _num_cpus, hilbertspace, _sweep_generators, _evals_count,
              _subsys_update_info, _data, _out_of_sync,
              _current_param_indices, DISPATCH_ENABLED, pc, runlocals,
              run_status, run_log, writes>>

\* parameters.reorder(ordering)
call_reorder(ordering) ==
    /\ pc = "idle"
    /\ LET out == reorder(parameters, ordering)
       IN /\ parameters' = IF out.ok THEN out.val ELSE parameters
          /\ ret' = [op |-> "reorder", arg |-> ordering, ok |-> out.ok,
                     before |-> parameters]
    /\ UNCHANGED notsweep

\* parameters[key] with a tuple key
call_getitem_tuple(key) ==
    /\ ret' = [op |-> "getitem", arg |-> key,
               out |-> getitem_tuple(parameters, key)]
    /\ UNCHANGED <<parameters, notsweep>>

\* parameters.create_reduced(fixed_parametername_list, fixed_values)
call_create_reduced(fixed_parametername_list, fixed_values) ==
    /\ ret' = [op |-> "create_reduced",
               arg |-> <<fixed_parametername_list, fixed_values>>,
               out |-> create_reduced(parameters, fixed_parametername_list,
                                      fixed_values),
               before |-> parameters]
    /\ UNCHANGED <<parameters, notsweep>>

NextParams ==
    \/ \E ordering \in NameOrderings \cup IndexOrderings :
          call_reorder(ordering)
    \/ \E key \in IndexTuples : call_getitem_tuple(key)
    \/ \E fixed_parametername_list \in FixedNameLists,
          fixed_values \in FixedValueLists :
          call_create_reduced(fixed_parametername_list, fixed_values)

SpecParams == InitParams /\ [][NextParams]_vars

(***************************************************************************)
(* A sweep with all that reaches its staleness flag and its selection:     *)
(* runs, events of its own and of other senders, reassignments,            *)
(* selections and reads.                                                   *)
(***************************************************************************)
AccessSelectors ==
    {[kind |-> "tuple", key |-> <<0>>],
     [kind |-> "tuple", key |-> <<FreeSlot, 0>>],
     [kind |-> "slice", key |-> <<>>]}

\* names read with sweep[name]: keys run() writes, and one it never writes
AccessKeys == {"bare_esys", "dressed_indices", "lookup", "evals"}

InitAccess ==
    \E keys \in {<<"p">>, <<"p", "q">>},
       gens \in {None, Some(<<"lookup", "obs">>)} :
        SweepInit(keys, None, gens)

NextAccess ==
    \/ RunNext
    \/ external_update
    \/ \E event \in {"HILBERTSPACE_UPDATE", "PARAMETERSWEEP_UPDATE"} :
          foreign_event(event)
    \/ \E field \in {"parameters", "_evals_count", "_data"} : reassign(field)
    \/ \E key \in AccessSelectors : select(key)
    \/ \E key \in AccessKeys : call_getitem_str(key)
    \/ \E param_indices \in AccessSelectors :
          call_is_single_sweep(param_indices)
    \/ \E indexing_ok \in BOOLEAN : call_bare_specdata_list(None, indexing_ok)

SpecAccess == InitAccess /\ [][NextAccess]_vars

(***************************************************************************)
(* Serialization of a sweep and the StoredSweep made from it               *)
(***************************************************************************)
\* the names of initdata in the order of the dict literal
InitdataNames == <<"paramvals_by_name", "hilbertspace", "evals_count", "_data">>

\* serializers.dict_serialize: the entries of the dict, one by one, under
\* their names
dict_serialize(initdata) ==
    [typename |-> "dict",
     entries |-> [i \in 1..Len(InitdataNames) |->
                     [name |-> InitdataNames[i],
                      value |-> initdata[InitdataNames[i]]]]]

\* IOData.as_kwargs: the keyword arguments the entries stand for
as_kwargs(iodata) ==
    [n \in {iodata.entries[i].name : i \in 1..Len(iodata.entries)} |->
        (CHOOSE e \in ToSet(iodata.entries) : e.name = n).value]

\* a serialize() that stores the dict of the axes as it was first given
serialize_unordered(P, handle, evals_count, data) ==
    [dict_serialize([paramvals_by_name |-> P._paramvals_by_name,
                     hilbertspace |-> handle,
                     evals_count |-> evals_count,
                     _data |-> data])
        EXCEPT !.typename = "StoredSweep"]

\* ParameterSweep.serialize
serialize(P, handle, evals_count, data) ==
    [dict_serialize([paramvals_by_name |-> ordered_dict(P),
                     hilbertspace |-> handle,
                     evals_count |-> evals_count,
                     _data |-> data])
        EXCEPT !.typename = "StoredSweep"]

\* StoredSweep.__init__
StoredSweep_init(kwargs) ==
    [parameters |-> Parameters(kwargs["paramvals_by_name"]),
     _hilbertspace |-> kwargs["hilbertspace"],
     _evals_count |-> kwargs["evals_count"],
     _data |-> kwargs["_data"],
     _out_of_sync |-> FALSE,
     _current_param_indices |-> [kind |-> "tuple", key |-> <<>>]]

\* StoredSweep.deserialize
deserialize(iodata) == StoredSweep_init(as_kwargs(iodata))

\* StoredSweep.deserialize(sweep.serialize())
call_round_trip ==
    /\ pc = "idle"
    /\ ret' = [op |-> "deserialize",
               out |-> deserialize(serialize(parameters, hilbertspace,
                                             _evals_count, _data)),
               before |-> [hilbertspace |-> hilbertspace, _data |-> _data]]
    /\ UNCHANGED <<parameters, notsweep>>

InitStored ==
    \E keys \in KeyOrders, gens \in {None, Some(<<"obs">>)} :
        SweepInit(keys, None, gens)

\* orderings of the axes by name and by index, one of them of one name only
StoredOrderings ==
    {[kind |-> "str", list |-> <<"q", "p">>],
     [kind |-> "str", list |-> <<"p">>],
     [kind |-> "int", list |-> <<1, 0>>]}

NextStored ==
    \/ RunNext
    \/ \E ordering \in StoredOrderings : call_reorder(ordering)
    \/ \E field \in {"parameters", "_evals_count", "_data"} : reassign(field)
    \/ call_round_trip

\* runs, reorderings of the axes and reassignments, and the round trip
SpecStored == InitStored /\ [][NextStored]_vars

(***************************************************************************)
(* A sweep with more than one worker                                       *)
(***************************************************************************)
\* sweeps of one axis and of two, without and with an update map under
\* which each subsystem has an axis that does not affect it
InitParallel ==
    \E keys \in {<<"p">>, <<"p", "q">>},
       info \in {None,
                 Some([n \in {"p", "q"} |->
                          IF n = "p" THEN {0} ELSE {NumSubsys - 1}])} :
        ParameterSweep_init(keys, info, None, FALSE, NumCpus)

NextParallel ==
    \/ run_call
    \/ \E fail \in {"none", "update"} : cause_dispatch(fail)
    \/ disable_dispatch
    \/ bare_setup
    \/ \E fail \in {"none", "worker"} : pmap_bare_point(fail)
    \/ pmap_collect
    \/ bare_reassemble
    \/ pmap_dressed_point("none")
    \/ dressed_reassemble
    \/ run_lookup(TRUE, 1)
    \/ enable_dispatch

SpecParallel == InitParallel /\ [][NextParallel]_vars

(***************************************************************************)
(* Properties                                                              *)
(***************************************************************************)
InRun == pc # "idle"
BeforeDisable == pc \in {"idle", "cause_dispatch", "disable"}
RunEnds == pc # "idle" /\ pc' = "idle"

\* number of axes a selector leaves free on a sweep with n axes
FreeAxes(sel, n) ==
    CASE sel.kind = "tuple" ->
            n - Cardinality({i \in 1..Len(sel.key) : sel.key[i] # FreeSlot})
      [] sel.kind = "slice" -> n
      [] sel.kind = "dict" ->
            n - Cardinality(sel.key \cap ToSet(names(parameters)))

\* C1: every step that ends run() after run() has disabled the channel,
\* by return or by an error of a point-level step or of the lookup build,
\* leaves the process-wide dispatch flag enabled.
C1_ReenabledWhenRunEnds ==
    [][(RunEnds /\ ~ BeforeDisable) => DISPATCH_ENABLED']_vars

\* C2: once run() has returned and the store holds the lookup table of the
\* run, a change of the HilbertSpace made outside the sweep, and a
\* reassignment of parameters, _evals_count or _data, sets _out_of_sync.
C2_StaleAfterRun ==
    [][(/\ pc = "idle"
        /\ run_status = "returned"
        /\ "dressed_indices" \in DOMAIN _data.val
        /\ \/ external_update
           \/ \E field \in {"parameters", "_evals_count", "_data"} :
                 reassign(field))
       => _out_of_sync']_vars

\* C3 as stated: no step of run(), from its start to its return, delivers
\* an event to a client or changes _out_of_sync.
C3_NoEventDuringRun ==
    [][InRun => (run_log' = run_log /\ _out_of_sync' = _out_of_sync)]_vars

\* C3 amended: no step of run() after cause_dispatch delivers an event to a
\* client or changes _out_of_sync, although each point updates the handle.
C3_NoEventAfterCauseDispatch ==
    [][(InRun /\ pc # "cause_dispatch")
          => (run_log' = run_log /\ _out_of_sync' = _out_of_sync)]_vars

\* a dressed point has updated the handle after cause_dispatch delivered
\* its event, and the log holds that one event only
C3_Witness ==
    /\ pc = "dressed_map"
    /\ Len(results) >= 2
    /\ hilbertspace = results[Len(results)].config
    /\ Len(run_log) = 1
    /\ run_log[1].at = "cause_dispatch"

\* C4: when run() has ended with an error, the store holds none of the
\* entries that this run assigned.
C4_AllOrNothing ==
    (pc = "idle" /\ run_status = "raised")
        => ToSet(writes) \cap DOMAIN _data.val = {}

\* the bare array of the store is complete: one array per subsystem, each
\* of the full shape, each holding entries of that subsystem
BareComplete ==
    /\ "bare_esys" \in DOMAIN _data.val
    /\ LET bare == _data.val["bare_esys"].arr
       IN /\ Len(bare) = NumSubsys
          /\ \A s \in Subsystems :
                /\ bare[s + 1].shape = counts(parameters) \o <<NumEsys>>
                /\ Len(bare[s + 1].flat) = prod(counts(parameters))
                /\ \A k \in 1..Len(bare[s + 1].flat) :
                      bare[s + 1].flat[k].subsys = s

\* C5: while the dressed sweep computes, the bare array was stored by this
\* run and is complete, and every hint a dressed point received holds the
\* stored bare entry of each subsystem; a run that raised before storing
\* the bare array has stored nothing, so its dressed phase never started.
C5_PhaseBarrier ==
    /\ pc \in {"dressed_map", "lookup", "custom", "enable"}
          => (Len(writes) >= 1 /\ writes[1] = "bare_esys" /\ BareComplete)
    /\ pc = "dressed_map"
          => \A k \in 1..Len(results) : \A s \in Subsystems :
                /\ s \in DOMAIN results[k].bare_esys
                /\ results[k].bare_esys[s].subsys = s
    /\ (run_status = "raised" /\ "bare_esys" \notin ToSet(writes))
          => writes = <<>>

\* the dressed sweep has computed points from hints on a sweep with
\* collapsed axes
C5_Witness ==
    /\ pc = "dressed_map"
    /\ Len(results) >= 2
    /\ ~ _subsys_update_info.none

\* the keys a run assigns, in order
ExpectedWrites ==
    <<"bare_esys", "esys", "dressed_indices">>
        \o (IF _sweep_generators.none THEN <<>> ELSE _sweep_generators.v)

\* C6: when run() is about to return, it has assigned bare_esys, esys,
\* dressed_indices and the generators' names, in this order and once each,
\* and the store holds a named array under each of them.
C6_WriteOrder ==
    pc = "enable"
        => /\ writes = ExpectedWrites
           /\ \A i, j \in 1..Len(writes) : writes[i] = writes[j] => i = j
           /\ \A k \in ToSet(writes) :
                 /\ k \in DOMAIN _data.val
                 /\ _data.val[k].type = "NamedSlotsNdarray"

\* C7: is_single_sweep(selector) returns true exactly when the selector
\* leaves one axis free.
C7_SingleSweep ==
    (/\ ret.op = "is_single_sweep"
     /\ ret.out.ok
     /\ Len(ret.arg.key) <= len(parameters))
        => (ret.out.val <=> FreeAxes(ret.arg, len(parameters)) = 1)

\* the selector in force for bare_specdata_list
SelectorInForce(fixed_params, current) ==
    IF fixed_params.none \/ fixed_params.v = {}
    THEN current ELSE [kind |-> "dict", key |-> fixed_params.v]

\* C8: on a sweep that has been run, bare_specdata_list raises the usage
\* error exactly when the selector in force leaves more than one axis
\* free, and the call leaves the store and _out_of_sync unchanged.
C8_AmbiguousSelection ==
    (/\ ret.op = "bare_specdata_list"
     /\ "dressed_indices" \in DOMAIN _data.val
     /\ Len(_current_param_indices.key) <= len(parameters))
        => /\ (~ ret.out.ok /\ ret.out.err = "ValueError")
                 <=> FreeAxes(SelectorInForce(ret.arg, _current_param_indices),
                              len(parameters)) > 1
           /\ ret.data = _data
           /\ ret.out_of_sync = _out_of_sync

\* C9: parameters[index_tuple] raises when the length of the tuple is not
\* the number of axes, and otherwise returns the value at index_tuple[i]
\* of axis i for every axis.
C9_PointLookup ==
    ret.op = "getitem" =>
        LET key == ret.arg
            n == len(parameters)
        IN IF Len(key) # n THEN ~ ret.out.ok
           ELSE (\A i \in 1..n : key[i] < counts(parameters)[i])
                   => /\ ret.out.ok
                      /\ ret.out.val =
                            [i \in 1..n |->
                                paramvals_list(parameters)[i][key[i] + 1]]

\* the ordering list of P is a permutation of the keys of its mapping
IsPermutationOfKeys(P) ==
    /\ ToSet(P._paramnames_list) = DOMAIN P._paramvals_by_name.val
    /\ \A i, j \in 1..Len(P._paramnames_list) :
          P._paramnames_list[i] = P._paramnames_list[j] => i = j
    /\ len(P) = Cardinality(DOMAIN P._paramvals_by_name.val)

\* C10: after any calls of reorder, and on every Parameters that
\* create_reduced returns, the ordering list is a permutation of the keys
\* of the mapping and len() is the number of axes.
C10_OrderingIsPermutation ==
    /\ IsPermutationOfKeys(parameters)
    /\ (ret.op = "create_reduced" /\ ret.out.ok)
          => IsPermutationOfKeys(ret.out.val)

\* a reorder has changed the ordering of a Parameters with two axes
C10_Witness ==
    /\ ret.op = "reorder"
    /\ ret.ok
    /\ len(parameters) = 2
    /\ parameters._paramnames_list # ret.before._paramnames_list

\* o is a permutation of the names of P
IsNamePermutation(P, o) ==
    /\ Len(o) = len(P)
    /\ ToSet(o) = ToSet(P._paramnames_list)

\* o is a permutation of 0..n-1 for the n axes of P
IsIndexPermutation(P, o) ==
    /\ Len(o) = len(P)
    /\ ToSet(o) = {i - 1 : i \in 1..len(P)}

\* C11: reorder with a permutation of the names, or of the positions, is
\* accepted, and ordered_dict then lists the axes in the requested order
\* with the values each axis had; reorder with any other argument raises
\* the ordering error and leaves the ordering and the values as they were.
C11_ReorderThenOrderedDict ==
    ret.op = "reorder" =>
        LET o == ret.arg.list
            old == ret.before
            requested ==
                IF ret.arg.kind = "str" THEN o
                ELSE [i \in 1..Len(o) |-> old._paramnames_list[o[i] + 1]]
            valid ==
                IF ret.arg.kind = "str" THEN IsNamePermutation(old, o)
                ELSE IsIndexPermutation(old, o)
        IN IF valid
           THEN /\ ret.ok
                /\ ordered_dict(parameters).keys = requested
                /\ \A n \in ToSet(requested) :
                      ordered_dict(parameters).val[n] =
                          old._paramvals_by_name.val[n]
                /\ DOMAIN ordered_dict(parameters).val = ToSet(requested)
           ELSE /\ ~ ret.ok
                /\ parameters = old

\* a reorder by positions has reversed the two axes, and the order differs
\* from the insertion order of the mapping
C11_Witness ==
    /\ ret.op = "reorder"
    /\ ret.ok
    /\ ret.arg.kind = "int"
    /\ ret.arg.list = <<1, 0>>
    /\ ordered_dict(parameters).keys # parameters._paramvals_by_name.keys

\* C12: create_reduced with names of axes returns a Parameters in which a
\* named axis holds the value list given for it, or its first value alone
\* when none is given, every other axis holds its values, the ordering is
\* the current ordering of the original, and the original is unchanged.
C12_CreateReduced ==
    (/\ ret.op = "create_reduced"
     /\ ret.out.ok
     /\ ToSet(ret.arg[1]) \subseteq ToSet(ret.before._paramnames_list))
        => LET fixed == ret.arg[1]
               values == ret.arg[2]
               old == ret.before
               new == ret.out.val
           IN /\ new._paramnames_list = old._paramnames_list
              /\ DOMAIN new._paramvals_by_name.val
                    = DOMAIN old._paramvals_by_name.val
              /\ \A n \in ToSet(old._paramnames_list) :
                    IF n \in ToSet(fixed)
                    THEN \E i \in 1..Len(fixed) :
                            /\ fixed[i] = n
                            /\ new._paramvals_by_name.val[n] =
                                  IF values.none
                                  THEN <<old._paramvals_by_name.val[n][1]>>
                                  ELSE values.v[i]
                    ELSE new._paramvals_by_name.val[n]
                            = old._paramvals_by_name.val[n]
              /\ parameters = old

\* an axis was fixed to a given value on a Parameters whose ordering had
\* been changed by reorder
C12_Witness ==
    /\ ret.op = "create_reduced"
    /\ ret.out.ok
    /\ ret.arg[1] = <<"p">>
    /\ ~ ret.arg[2].none
    /\ len(parameters) = 2
    /\ parameters._paramnames_list # parameters._paramvals_by_name.keys
    /\ ret.out.val._paramvals_by_name.val["p"] = <<5>>

\* position of index tuple t in row-major order of a grid with the counts
RECURSIVE Rank(_, _)
Rank(cnts, t) ==
    IF cnts = <<>> THEN 0
    ELSE Head(t) * prod(Tail(cnts)) + Rank(Tail(cnts), Tail(t))

\* the index tuples of a grid with the counts
IndexSpace(cnts) ==
    {t \in [1..Len(cnts) -> 0..MaxIndex] : \A i \in 1..Len(cnts) : t[i] < cnts[i]}

\* the index tuple at position r (from 0) of the row-major order
Unrank(cnts, r) == CHOOSE t \in IndexSpace(cnts) : Rank(cnts, t) = r

\* the values of P at index tuple t
PointAt(P, t) == [i \in 1..len(P) |-> paramvals_list(P)[i][t[i] + 1]]

\* C13: the map of the bare sweep and the map of the dressed sweep visit
\* the grid in row-major order of the current axis ordering: the point at
\* position k of the enumeration is the point of rank k, and the number of
\* points is the product of the axis counts, each visited once.
C13_GridEnumeration ==
    /\ pc = "bare_map" =>
          LET c == counts(reduced_parameters)
              n == Len(results)
          IN /\ n + Len(todo) = prod(c)
             /\ \A k \in 1..n :
                   results[k].config
                      = PointAt(reduced_parameters, Unrank(c, k - 1))
             /\ \A k \in 1..Len(todo) :
                   todo[k] = PointAt(reduced_parameters, Unrank(c, n + k - 1))
    /\ pc = "dressed_map" =>
          LET c == counts(parameters)
              n == Len(results)
          IN /\ n + Len(todo) = prod(c)
             /\ \A k \in 1..n :
                   results[k].config = PointAt(parameters, Unrank(c, k - 1))
             /\ \A k \in 1..Len(todo) : todo[k] = Unrank(c, n + k - 1)

\* the bare map has visited every point of a full grid of two axes
C13_Witness ==
    /\ pc = "bare_map"
    /\ len(parameters) = 2
    /\ todo = <<>>
    /\ Len(results) = PCount * QCount

\* the axes that do not affect subsystem s
Collapsed(s) ==
    IF _subsys_update_info.none THEN {}
    ELSE {a \in ToSet(names(parameters)) :
             \/ a \notin DOMAIN _subsys_update_info.v
             \/ s \notin _subsys_update_info.v[a]}

\* C14: in the stored bare array every subsystem has the full shape, and
\* along an axis collapsed for a subsystem every entry is the entry at the
\* first position of that axis, whatever the indices of the other axes.
C14_ReplicationExpansion ==
    "bare_esys" \in DOMAIN _data.val =>
        \A s \in Subsystems :
            LET arr == _data.val["bare_esys"].arr[s + 1]
                c == counts(parameters)
            IN /\ arr.shape = c \o <<NumEsys>>
               /\ Len(arr.flat) = prod(c)
               /\ \A i \in 1..Len(c) : \A t \in IndexSpace(c) :
                     names(parameters)[i] \in Collapsed(s)
                        => at(arr, t) = at(arr, [t EXCEPT ![i] = 0])

\* the stored bare array of a subsystem for which the second of two axes
\* was collapsed
C14_Witness ==
    /\ "bare_esys" \in DOMAIN _data.val
    /\ len(parameters) = 2
    /\ names(parameters)[2] \in Collapsed(0)
    /\ names(parameters)[1] \notin Collapsed(0)

\* C17: for the subsystem being swept the collapsed axes are exactly the
\* axes that do not affect it, the number of update-and-solve steps is the
\* product of the counts of the other axes, and every step passes one
\* value per axis in axis order, the first value for a collapsed axis.
C17_SelectiveRecomputation ==
    pc = "bare_map" =>
        LET P == parameters
            affecting == [i \in 1..len(P) |->
                            IF names(P)[i] \in Collapsed(subsystem)
                            THEN 1 ELSE counts(P)[i]]
            steps == [k \in 1..Len(results) |-> results[k].config] \o todo
        IN /\ ToSet(fixed_paramnames) = Collapsed(subsystem)
           /\ Len(steps) = prod(affecting)
           /\ \A k \in 1..Len(steps) :
                 /\ Len(steps[k]) = len(P)
                 /\ \A i \in 1..len(P) :
                       IF names(P)[i] \in Collapsed(subsystem)
                       THEN steps[k][i] = paramvals_list(P)[i][1]
                       ELSE steps[k][i] \in ToSet(paramvals_list(P)[i])
           /\ \A j, k \in 1..Len(steps) : steps[j] = steps[k] => j = k
           /\ results # <<>> => hilbertspace = results[Len(results)].config

\* the second subsystem has been swept over one of two axes only
C17_Witness ==
    /\ pc = "bare_map"
    /\ subsystem = NumSubsys - 1
    /\ len(parameters) = 2
    /\ Cardinality(Collapsed(subsystem)) = 1
    /\ todo = <<>>
    /\ results # <<>>

\* C18: the dressed result of the index tuple at position k was solved on
\* the handle as updated with the values at that tuple, with the
\* configured count and with the stored bare entry of every subsystem at
\* that tuple as the hint; it is stored at that tuple of the dressed array.
C18_DressedPoint ==
    /\ pc = "dressed_map" =>
          /\ \A k \in 1..Len(results) :
                LET t == Unrank(counts(parameters), k - 1)
                IN /\ results[k].config = PointAt(parameters, t)
                   /\ results[k].evals_count = _evals_count
                   /\ DOMAIN results[k].bare_esys = Subsystems
                   /\ \A s \in Subsystems :
                         results[k].bare_esys[s]
                            = at(_data.val["bare_esys"].arr[s + 1], t)
          /\ results # <<>> => hilbertspace = results[Len(results)].config
    /\ ("esys" \in DOMAIN _data.val /\ "bare_esys" \in DOMAIN _data.val) =>
          \A t \in IndexSpace(counts(parameters)) :
             LET e == at(_data.val["esys"].arr, t)
             IN /\ e.config = PointAt(parameters, t)
                /\ \A s \in Subsystems :
                      e.bare_esys[s] = at(_data.val["bare_esys"].arr[s + 1], t)

\* the dressed map has solved every point of a grid of two axes
C18_Witness ==
    /\ pc = "dressed_map"
    /\ len(parameters) = 2
    /\ todo = <<>>
    /\ Len(results) = PCount * QCount

\* the state a constructor that does not run leaves
Constructed ==
    /\ pc = "idle"
    /\ _data = EmptyDict
    /\ ~ _out_of_sync
    /\ writes = <<>>

\* C15: a sweep constructed with autorun disabled starts in the constructed
\* state, with an empty store, the staleness flag false and a handle that
\* construction has not updated or solved; as long as run() has not been
\* called the store stays empty and only callers outside the sweep
\* reconfigure the handle.
C15_ConstructedState ==
    /\ ~ autorun => (Constructed /\ run_status = "none"
                       /\ hilbertspace = InitialConfig)
    /\ [](( ~ autorun /\ run_status = "none")
             => (Constructed
                   /\ hilbertspace \in {InitialConfig, ExternalConfig}))

\* a sweep constructed without autorun, before any call of run()
C15_Witness ==
    /\ ~ autorun
    /\ run_status = "none"
    /\ hilbertspace = InitialConfig
    /\ _data = EmptyDict
    /\ pc = "idle"

ReducedPointAt(s, t) ==
    [i \in 1..len(parameters) |->
        IF names(parameters)[i] \in Collapsed(s)
        THEN paramvals_list(parameters)[i][1]
        ELSE paramvals_list(parameters)[i][t[i] + 1]]

\* C19: with more than one worker, in whatever order the workers complete
\* the points, a result collected for a point is the result of that point,
\* the stored bare entry of a subsystem at an index tuple is the result
\* computed for the point of that tuple, and so is the stored dressed entry.
C19_SubmissionOrder ==
    multi_cpu =>
        /\ pc = "bare_pmap" =>
              \A k \in DOMAIN results :
                 results[k] = subsystem_eigensys(subsystem, todo[k])
        /\ pc = "dressed_pmap" =>
              \A k \in DOMAIN results :
                 results[k].config = PointAt(parameters, todo[k])
        /\ "bare_esys" \in DOMAIN _data.val =>
              \A s \in Subsystems : \A t \in IndexSpace(counts(parameters)) :
                 at(_data.val["bare_esys"].arr[s + 1], t)
                    = subsystem_eigensys(s, ReducedPointAt(s, t))
        /\ "esys" \in DOMAIN _data.val =>
              \A t \in IndexSpace(counts(parameters)) :
                 LET e == at(_data.val["esys"].arr, t)
                 IN /\ e.config = PointAt(parameters, t)
                    /\ \A s \in Subsystems :
                          e.bare_esys[s]
                             = subsystem_eigensys(s, ReducedPointAt(s, t))

\* the workers have completed the last point of a grid of two axes first
\* and the first point not yet, and a run with workers has stored both
\* arrays
C19_Witness ==
    /\ multi_cpu
    /\ len(parameters) = 2
    /\ pc \in {"bare_pmap", "dressed_pmap"}
    /\ Len(todo) \in DOMAIN results
    /\ 1 \notin DOMAIN results
    /\ "esys" \in DOMAIN _data.val

\* the first value of every axis, in axis order
FirstValues ==
    [i \in 1..len(parameters) |-> paramvals_list(parameters)[i][1]]

\* C20: run() starts with the channel enabled, makes one update with the
\* first value of every axis, which is the one event of the run that
\* reaches the clients, and disables the channel after it; every later
\* step of the run that updates the handle finds the channel disabled.
C20_SyntheticUpdateFirst ==
    /\ pc = "cause_dispatch" => DISPATCH_ENABLED
    /\ pc = "disable" =>
          /\ DISPATCH_ENABLED
          /\ hilbertspace = FirstValues
          /\ Len(run_log) = 1
          /\ run_log[1].event = "HILBERTSPACE_UPDATE"
    /\ pc \in {"bare_setup", "bare_map", "bare_pmap", "dressed_map",
               "dressed_pmap"} => ~ DISPATCH_ENABLED

\* a step in which an event of the handle of the sweep, or of the sweep
\* itself, is announced
OwnEvent ==
    \/ external_update
    \/ \E field \in {"parameters", "_evals_count", "_data"} : reassign(field)
    \/ cause_dispatch("none")
    \/ \E fail \in {"none", "eigensys"} : update_subsys_compute_esys(fail)
    \/ \E fail \in {"none", "eigensys"} :
          update_and_compute_dressed_esys(fail)

\* C21: _out_of_sync is false after construction; no step of a run, no
\* selection, no read and no event sets it back to false; an event of
\* another handle or of another sweep leaves it as it is; a step that sets
\* it announces an event of the handle of the sweep or of the sweep itself.
C21_StalenessMonotone ==
    /\ ~ _out_of_sync
    /\ [][/\ _out_of_sync => _out_of_sync'
          /\ (\E event \in {"HILBERTSPACE_UPDATE", "PARAMETERSWEEP_UPDATE"} :
                 foreign_event(event)) => _out_of_sync' = _out_of_sync
          /\ (~ _out_of_sync /\ _out_of_sync') => OwnEvent]_vars

\* a stale sweep that has been run again, has received an event of another
\* sweep and has then been read
C21_Witness ==
    /\ _out_of_sync
    /\ run_status = "returned"
    /\ run_log # <<>>
    /\ ret.op = "sweep_getitem"
    /\ ret.out_of_sync

\* the last value of every axis, in axis order
LastValues ==
    [i \in 1..len(parameters) |->
        paramvals_list(parameters)[i][counts(parameters)[i]]]

\* C22: when a sequential run() returns, the handle holds the last value
\* of every axis, which on a grid of more than one point is not the first
\* point; between runs the handle changes only when a caller outside the
\* sweep reconfigures it.
C22_HandleAtLastPoint ==
    [][/\ (pc = "enable" /\ pc' = "idle" /\ ~ multi_cpu)
             => /\ hilbertspace' = LastValues
                /\ prod(counts(parameters)) > 1 => hilbertspace' # FirstValues
       /\ (pc = "idle" /\ pc' = "idle" /\ ~ external_update)
             => hilbertspace' = hilbertspace]_vars

\* a run of a sweep of two axes has returned and nothing has touched the
\* handle since
C22_Witness ==
    /\ pc = "idle"
    /\ run_status = "returned"
    /\ ~ multi_cpu
    /\ len(parameters) = 2
    /\ hilbertspace = LastValues
    /\ hilbertspace # FirstValues

\* the selector seen through a value that a selection returned
Observe(r) ==
    IF r.ref = "self" THEN _current_param_indices
    ELSE r._current_param_indices

\* the state of the sweep apart from its current selection
AllButSelection ==
    <<sweepfields, hilbertspace, _data, _out_of_sync, DISPATCH_ENABLED, pc,
      runlocals, run_status, run_log, writes>>

\* C23: sweep[key] with a tuple or slice key returns the sweep itself and
\* changes nothing but the current selection, so that the value returned
\* by the selection before it observes the new selector too; sweep[name]
\* changes no state and returns the entry of the store when the store has
\* the name, whether _out_of_sync is set or not.
C23_SelectionFrame ==
    /\ [](ret.op = "select" =>
            /\ ret.out.ref = "self"
            /\ Observe(ret.out) = ret.arg
            /\ ~ ret.earlier.none => Observe(ret.earlier.v) = ret.arg)
    /\ [](ret.op = "sweep_getitem" =>
            /\ ret.out.ok <=> ret.arg \in DOMAIN _data.val
            /\ ret.out.ok => ret.out.val = _data.val[ret.arg])
    /\ [][/\ (\E key \in AccessSelectors : select(key))
                => UNCHANGED AllButSelection
          /\ (\E key \in AccessKeys : call_getitem_str(key))
                => UNCHANGED <<AllButSelection, _current_param_indices>>]_vars

\* the second of two successive selections on a stale sweep that has run
C23_Witness ==
    /\ ret.op = "select"
    /\ ~ ret.earlier.none
    /\ _out_of_sync
    /\ "esys" \in DOMAIN _data.val
    /\ _current_param_indices.kind = "slice"

====
